---------------------------- MODULE Spec2Model ----------------------------
(***************************************************************************)
(* Model of the transcription tool: src/src/transcription_tool.py,         *)
(* src/src/file_handler.py, src/src/local_image_classifier.py and          *)
(* src/src/llm_handler.py.                                                  *)
(*                                                                         *)
(* One behaviour is one run of main(): module import, argument handling,   *)
(* prompt loading, then either process_single_image or process_directory.  *)
(* The external collaborators (file system, DiT classifier, TrOCR model,   *)
(* OpenAI API) answer nondeterministically.                                *)
(***************************************************************************)
EXTENDS Integers, Sequences, FiniteSets, TLC

(***************************************************************************)
(* Bounds of the model.                                                    *)
(***************************************************************************)
\* Largest number of entries the input directory holds at start.
MaxEntries == 2

\* Largest number of calls of configure_openai_api after the import.
MaxConfigureCalls == 2

(***************************************************************************)
(* Values.                                                                 *)
(***************************************************************************)
\* Python's None, where a string, a text or a path is expected.
None == "None"
NoneText == <<"None">>

\* A text is a sequence of characters. The raw texts a backend answers with:
\* empty, blank only, padded with blanks, and plain.
RawTexts == { <<>>, <<" ">>, <<" ", "x", " ">>, <<"y">> }

\* The raw contents of the prompt file.
RawPrompts == { <<>>, <<" ">>, <<" ", "p">>, <<"q", " ">> }

\* Content of an output file that exists before the run.
OldText == <<"o">>

\* str.strip(): drop leading and trailing blanks.
RECURSIVE LStrip(_)
LStrip(s) == IF s # <<>> /\ Head(s) = " " THEN LStrip(Tail(s)) ELSE s

RECURSIVE RStrip(_)
RStrip(s) ==
    IF s # <<>> /\ s[Len(s)] = " " THEN RStrip(SubSeq(s, 1, Len(s) - 1)) ELSE s

Strip(s) == RStrip(LStrip(s))

\* str.lower() on the suffixes and labels that occur in the model.
Lower(s) ==
    CASE s = ".JPG"        -> ".jpg"
      [] s = ".JPEG"       -> ".jpeg"
      [] s = "Handwritten" -> "handwritten"
      [] s = "Letter"      -> "letter"
      [] OTHER             -> s

(***************************************************************************)
(* Paths and the file system.                                              *)
(***************************************************************************)
\* A path is directory / (stem + suffix).
P(d, s, e) == [dir |-> d, stem |-> s, ext |-> e]

\* Path.parent, Path.stem, Path.suffix
Parent(p) == p.dir
Stem(p) == p.stem
Suffix(p) == p.ext

\* The input directory and the directory given as --output_dir.
InDir == "in"
OutDir == "out"
Dirs == {InDir, OutDir}

\* Entries the input directory may hold at start: two images with the same
\* stem, an upper-case suffix, an unsupported suffix, a sub-directory with a
\* supported-looking name, and the output of an earlier run.
ImagePaths ==
    { P(InDir, "a", ".jpg"), P(InDir, "a", ".jpeg"), P(InDir, "b", ".JPG"),
      P(InDir, "c", ".png"), P(InDir, "d", ".jpg") }

OldOutput == P(InDir, "a", ".txt")

PoolPaths == ImagePaths \cup {OldOutput}

PoolDirs == { P(InDir, "d", ".jpg") }

\* An image inside the sub-directory: it exists whenever the sub-directory
\* does, and is not an immediate entry of the input directory.
NestedImage == P("in/d.jpg", "e", ".jpg")

TxtPaths == { P(d, s, ".txt") : d \in Dirs, s \in {"a", "b", "c", "d"} }

Paths == ImagePaths \cup TxtPaths \cup {NestedImage}

NonePath == P(None, None, None)

\* A value that is not a Path: the string s. isinstance(x, Path).
Str(s) == [str |-> s]
IsPathObject(x) == "dir" \in DOMAIN x

\* A node of the file system.
Absent == [kind |-> "absent", content |-> <<>>]
DirNode == [kind |-> "dir", content |-> <<>>]
FileNode(t) == [kind |-> "file", content |-> t]


(***************************************************************************)
(* file_handler.py                                                         *)
(***************************************************************************)
SUPPORTED_IMAGE_EXTENSIONS == {".jpg", ".jpeg"}

\* validate_image_file without the check that the path is a regular file.
validate_image_fileNoFileCheck(f, image_path) ==
    IF ~IsPathObject(image_path) THEN FALSE
    ELSE IF f[image_path].kind = "absent" THEN FALSE
    ELSE IF Lower(Suffix(image_path)) \notin SUPPORTED_IMAGE_EXTENSIONS THEN FALSE
    ELSE TRUE

\* validate_image_file without the check of the suffix.
validate_image_fileAnySuffix(f, image_path) ==
    IF ~IsPathObject(image_path) THEN FALSE
    ELSE IF f[image_path].kind = "absent" THEN FALSE
    ELSE IF f[image_path].kind # "file" THEN FALSE
    ELSE TRUE

\* validate_image_file(image_path) on the file system f: the path exists,
\* is a regular file and has a supported suffix (case-insensitive).
validate_image_file(f, image_path) ==
    IF ~IsPathObject(image_path) THEN FALSE
    ELSE IF f[image_path].kind = "absent" THEN FALSE
    ELSE IF f[image_path].kind # "file" THEN FALSE
    ELSE IF Lower(Suffix(image_path)) \notin SUPPORTED_IMAGE_EXTENSIONS THEN FALSE
    ELSE TRUE

\* SaveDir with the output directory ignored.
SaveDirIgnoresOutput(input_image_path, output_directory) == Parent(input_image_path)

\* The directory save_transcription writes into.
SaveDir(input_image_path, output_directory) ==
    IF output_directory = None THEN Parent(input_image_path) ELSE output_directory

\* The file save_transcription writes: output_dir / (stem + ".txt").
SavePath(input_image_path, output_directory) ==
    P(SaveDir(input_image_path, output_directory), Stem(input_image_path), ".txt")

\* What the operating system answers to mkdir(parents=True, exist_ok=True).
MkdirOutcomes == {"ok", "PermissionError", "OSError"}

\* What the operating system answers to open(path, "w") and f.write(text):
\* the open fails, the write fails after the file was truncated, or both work.
WriteOutcomes == {"ok", "open_fails", "write_fails"}

\* MkdirStops with only the permission error handled.
MkdirStopsOnPermissionOnly(output_directory, mk) ==
    output_directory # None /\ mk = "PermissionError"

\* save_transcription is stopped by the creation of the output directory:
\* mkdir is called only for a given output_directory, and any exception it
\* raises returns None.
MkdirStops(output_directory, mk) == output_directory # None /\ mk # "ok"

\* Written with a line end added.
WrittenWithNewline(transcription_text) == transcription_text \o <<"\n">>

\* The text f.write puts into the file.
Written(transcription_text) == transcription_text

\* save_transcription(transcription_text, input_image_path, output_directory)
\* under the given answers of the operating system. The result holds the
\* returned path (or None), the new file system, the new set of directories
\* and the system calls made, each failed one followed by "raised".
save_transcription(f, ds, transcription_text, input_image_path, output_directory, mk, wr) ==
    LET target == SavePath(input_image_path, output_directory)
        sys0 == IF output_directory # None
                THEN (IF mk = "ok" THEN <<"mkdir">> ELSE <<"mkdir", "raised">>)
                ELSE <<>>
        ds2 == IF output_directory # None /\ mk = "ok"
               THEN ds \cup {output_directory} ELSE ds
    IN  IF MkdirStops(output_directory, mk)
        THEN [path |-> NonePath, fs |-> f, dirs |-> ds2, sys |-> sys0]
        ELSE IF wr = "open_fails" \/ target.dir \notin ds2
        THEN [path |-> NonePath, fs |-> f, dirs |-> ds2,
              sys |-> sys0 \o <<"open", "raised">>]
        ELSE IF wr = "write_fails"
        THEN [path |-> NonePath,
              fs |-> [f EXCEPT ![target] = FileNode(<<>>)],
              dirs |-> ds2, sys |-> sys0 \o <<"open", "write", "raised">>]
        ELSE [path |-> target,
              fs |-> [f EXCEPT ![target] = FileNode(Written(transcription_text))],
              dirs |-> ds2, sys |-> sys0 \o <<"open", "write">>]

\* What reading the prompt file gives: no such file, an error while reading,
\* or its raw content.
PromptOutcomes ==
    {[kind |-> "not_a_file", raw |-> <<>>], [kind |-> "error", raw |-> <<>>]}
    \cup {[kind |-> "content", raw |-> t] : t \in RawPrompts}

\* load_prompt_file(prompt_file_path): the stripped content, or None.
load_prompt_file(o) ==
    IF o.kind = "not_a_file" THEN NoneText
    ELSE IF o.kind = "error" THEN NoneText
    ELSE Strip(o.raw)

(***************************************************************************)
(* local_image_classifier.py                                               *)
(***************************************************************************)
\* Scores are in hundredths: 50 stands for 0.5.
MIN_CONFIDENCE_SCORE == 50

TypewrittenLabels ==
    {"letter", "form", "email", "memo", "resume", "scientific publication",
     "report", "specification", "news article", "invoice"}

OtherDocumentLabels ==
    {"advertisement", "budget", "file folder", "presentation", "questionnaire",
     "scientific report"}

\* Labels and scores the DiT pipeline answers with in the model.
RawLabels == {"handwritten", "Handwritten", "letter", "budget", "zebra"}
Scores == {49, 50, 92}

\* What the DiT pipeline answers: an exception (opening the image or running
\* the model), no prediction list, an empty first prediction, or a top
\* prediction with a label and a score.
ClassifierOutcomes ==
    {[kind |-> k, label |-> "", score |-> 0] : k \in {"raise", "empty", "first_empty"}}
    \cup {[kind |-> "top", label |-> l, score |-> s] : l \in RawLabels, s \in Scores}

NoPrediction == [kind |-> "none", label |-> "", score |-> 0]

\* PrimaryOfTop with the threshold itself counted as too low.
PrimaryOfTopBoundaryExcluded(top_label, top_score) ==
    IF top_score <= MIN_CONFIDENCE_SCORE THEN "undetermined"
    ELSE IF top_label = "handwritten" THEN "handwritten"
    ELSE IF top_label \in TypewrittenLabels THEN "typewritten"
    ELSE "other_document_type"

\* The mapping of the top prediction to the primary classification.
PrimaryOfTop(top_label, top_score) ==
    IF top_score < MIN_CONFIDENCE_SCORE THEN "undetermined"
    ELSE IF top_label = "handwritten" THEN "handwritten"
    ELSE IF top_label \in TypewrittenLabels THEN "typewritten"
    ELSE IF top_label \in OtherDocumentLabels THEN "other_document_type"
    ELSE "other_document_type"

\* classify_text_type_local with a missing prediction list treated as an
\* error.
classify_text_type_localEmptyIsNone(initialised, o) ==
    IF ~initialised THEN None
    ELSE IF o.kind = "raise" THEN None
    ELSE IF o.kind = "empty" THEN None
    ELSE IF o.kind = "first_empty" THEN "undetermined"
    ELSE PrimaryOfTop(Lower(o.label), o.score)

\* classify_text_type_local(image_path): the primary classification, or None.
\* initialised: IMAGE_CLASSIFIER, PROCESSOR and MODEL are all set.
classify_text_type_local(initialised, o) ==
    IF ~initialised THEN None
    ELSE IF o.kind = "raise" THEN None
    ELSE IF o.kind = "empty" THEN "undetermined"
    ELSE IF o.kind = "first_empty" THEN "undetermined"
    ELSE PrimaryOfTop(Lower(o.label), o.score)

(***************************************************************************)
(* llm_handler.py                                                          *)
(***************************************************************************)
\* configure_openai_api without the return for a client that is already
\* configured.
configure_openai_apiAlways(configured, cl, key, ctor) ==
    IF ~key
    THEN [ret |-> FALSE, OPENAI_API_CONFIGURED |-> FALSE, client |-> cl,
          constructed |-> FALSE]
    ELSE IF ctor
    THEN [ret |-> TRUE, OPENAI_API_CONFIGURED |-> TRUE, client |-> "client",
          constructed |-> TRUE]
    ELSE [ret |-> FALSE, OPENAI_API_CONFIGURED |-> FALSE, client |-> cl,
          constructed |-> FALSE]

\* configure_openai_api() with the globals (configured, cl) and the
\* environment: key = OPENAI_API_KEY is set, ctor = OpenAI(api_key) works.
configure_openai_api(configured, cl, key, ctor) ==
    IF configured /\ cl # None
    THEN [ret |-> TRUE, OPENAI_API_CONFIGURED |-> configured, client |-> cl,
          constructed |-> FALSE]
    ELSE IF ~key
    THEN [ret |-> FALSE, OPENAI_API_CONFIGURED |-> FALSE, client |-> cl,
          constructed |-> FALSE]
    ELSE IF ctor
    THEN [ret |-> TRUE, OPENAI_API_CONFIGURED |-> TRUE, client |-> "client",
          constructed |-> TRUE]
    ELSE [ret |-> FALSE, OPENAI_API_CONFIGURED |-> FALSE, client |-> cl,
          constructed |-> FALSE]

\* What the OpenAI API answers to chat.completions.create.
ApiErrors ==
    {"AuthenticationError", "RateLimitError", "NotFoundError", "BadRequestError",
     "APIError", "Exception"}

ApiOutcomes ==
    {[kind |-> k, content |-> <<>>] : k \in ApiErrors \cup {"no_choices", "no_content"}}
    \cup {[kind |-> "content", content |-> t] : t \in RawTexts}

\* The kind of an answer of the API: an exception, a response without
\* choices, a response without content (missing or empty), or content.
AnswerKind(o) ==
    IF o.kind = "content" /\ o.content = <<>> THEN "no_content" ELSE o.kind

\* The value get_transcription_from_llm returns for an answer of the API.
LlmResult(o) ==
    IF o.kind \in ApiErrors THEN NoneText
    ELSE IF o.kind = "content" /\ o.content # <<>> THEN Strip(o.content)
    ELSE NoneText

\* What the TrOCR model answers: an exception, or the decoded text.
OcrOutcomes ==
    {[kind |-> k, text |-> <<>>] : k \in {"FileNotFoundError", "IOError", "Exception"}}
    \cup {[kind |-> "text", text |-> t] : t \in RawTexts}

\* The value get_transcription_from_local_ocr returns once the model is
\* initialised.
OcrResult(o) == IF o.kind = "text" THEN Strip(o.text) ELSE NoneText

\* initialize_local_ocr_model without the return for handles that are set.
initialize_local_ocr_modelReloads(handles, load_ok) ==
    IF load_ok THEN [ret |-> TRUE, handles |-> TRUE, loaded |-> TRUE]
    ELSE [ret |-> FALSE, handles |-> FALSE, loaded |-> FALSE]

\* _initialize_local_ocr_model() with the handles set or not, and whether
\* loading the TrOCR processor and model works.
initialize_local_ocr_model(handles, load_ok) ==
    IF handles THEN [ret |-> TRUE, handles |-> TRUE, loaded |-> FALSE]
    ELSE IF load_ok THEN [ret |-> TRUE, handles |-> TRUE, loaded |-> TRUE]
    ELSE [ret |-> FALSE, handles |-> FALSE, loaded |-> FALSE]

\* What _initialize_local_ocr_model did in a call r of
\* get_transcription_from_local_ocr: it loaded the model, it found the
\* handles set, or the loading failed.
Initialisation(r) ==
    IF r.loaded THEN "loaded"
    ELSE IF r.handles THEN "reused"
    ELSE "failed"

\* get_transcription_from_local_ocr(image_path): the text or None, and the
\* handles afterwards.
get_transcription_from_local_ocr(handles, load_ok, o) ==
    LET i == initialize_local_ocr_model(handles, load_ok)
    IN  IF ~i.ret \/ ~i.handles
        THEN [text |-> NoneText, handles |-> i.handles, loaded |-> i.loaded]
        ELSE [text |-> OcrResult(o), handles |-> i.handles, loaded |-> i.loaded]

\* get_transcription_from_llm with a second request after a rate limit error.
get_transcription_from_llmRetry(configured, cl, key, ctor, b64_ok, o) ==
    IF ~configured \/ cl = None \/ ~b64_ok
    THEN [text |-> NoneText, OPENAI_API_CONFIGURED |-> configured,
          client |-> cl, requests |-> 0]
    ELSE [text |-> LlmResult(o), OPENAI_API_CONFIGURED |-> configured,
          client |-> cl,
          requests |-> IF o.kind = "RateLimitError" THEN 2 ELSE 1]

\* get_transcription_from_llm(image_path, prompt_text): the text or None, the
\* globals afterwards and the number of requests sent to the API.
\* b64_ok: image_to_base64 gives a data URI.
get_transcription_from_llm(configured, cl, key, ctor, b64_ok, o) ==
    LET c == IF ~configured \/ cl = None
             THEN configure_openai_api(configured, cl, key, ctor)
             ELSE [ret |-> TRUE, OPENAI_API_CONFIGURED |-> configured,
                   client |-> cl, constructed |-> FALSE]
    IN  IF ~c.ret
        THEN [text |-> NoneText, OPENAI_API_CONFIGURED |-> c.OPENAI_API_CONFIGURED,
              client |-> c.client, requests |-> 0]
        ELSE IF ~b64_ok
        THEN [text |-> NoneText, OPENAI_API_CONFIGURED |-> c.OPENAI_API_CONFIGURED,
              client |-> c.client, requests |-> 0]
        ELSE [text |-> LlmResult(o), OPENAI_API_CONFIGURED |-> c.OPENAI_API_CONFIGURED,
              client |-> c.client, requests |-> 1]

(***************************************************************************)
(* The state of one run.                                                   *)
(***************************************************************************)
VARIABLES
    args,                        \* the parsed command line (never changes)
    fs,                          \* the file system: path -> node
    dirs,                        \* the directories that exist
    pc,                          \* where main() is
    exit_code,                   \* the status main() exited with, or None
    OPENAI_API_CONFIGURED,       \* llm_handler.OPENAI_API_CONFIGURED
    client,                      \* llm_handler.client
    tool_OPENAI_API_CONFIGURED,  \* the name transcription_tool imported
    IMAGE_CLASSIFIER,            \* the DiT pipeline, processor and model are set
    LOCAL_OCR,                   \* LOCAL_OCR_PROCESSOR and LOCAL_OCR_MODEL are set
    prompt_text,                 \* main's prompt_text
    batch,                       \* the frame of process_directory
    psi,                         \* the frame of process_single_image
    passed,                      \* the paths process_single_image was called with
    results,                     \* what each call of process_single_image returned
    main_calls                   \* the calls main() made, in order

vars ==
    << args, fs, dirs, pc, exit_code, OPENAI_API_CONFIGURED, client,
       tool_OPENAI_API_CONFIGURED, IMAGE_CLASSIFIER, LOCAL_OCR, prompt_text,
       batch, psi, passed, results, main_calls >>

globals ==
    << OPENAI_API_CONFIGURED, client, tool_OPENAI_API_CONFIGURED,
       IMAGE_CLASSIFIER, LOCAL_OCR >>

\* The requests get_transcription_from_llm sent to the API and the kind of the
\* answer, before any call.
NoRequest == [requests |-> 0, kind |-> None]

\* The frame of process_single_image when it is not running.
IdlePsi ==
    [ pc |-> "idle", image_path |-> NonePath, prompt_text |-> NoneText,
      output_dir |-> None,
      prediction |-> NoPrediction, primary_classification |-> None,
      effective_image_type |-> None, selected |-> None,
      transcription |-> NoneText, saved_path |-> NonePath,
      ret |-> FALSE, calls |-> <<>>, api |-> NoRequest, init |-> None ]

\* The frame of process_directory when it is not running.
IdleBatch ==
    [ pending |-> {}, actual_output_dir |-> None,
      processed_files_count |-> 0, successful_files_count |-> 0,
      failed_files_count |-> 0, found_image_files |-> FALSE, ret |-> FALSE ]

\* The file system holding the entries `listing` of the input directory.
\* With the output of an earlier run in the input directory, the output
\* directory exists too and holds the same file.
InitialFs(listing) ==
    [ p \in Paths |->
        IF OldOutput \in listing /\ p \in {OldOutput, P(OutDir, "a", ".txt")}
        THEN FileNode(OldText)
        ELSE IF p \in listing
        THEN (IF p \in PoolDirs THEN DirNode ELSE FileNode(<<>>))
        ELSE IF p = NestedImage /\ P(InDir, "d", ".jpg") \in listing
        THEN FileNode(<<>>)
        ELSE Absent ]

\* The command lines of the model: --image_file or --image_dir, with or
\* without --output_dir.
ArgsSet ==
    { [mode |-> "file", image_file |-> p, image_dir |-> None, output_dir |-> o] :
        p \in ImagePaths, o \in {None, OutDir} }
    \cup
    { [mode |-> "dir", image_file |-> NonePath, image_dir |-> d, output_dir |-> o] :
        d \in {InDir, "missing"}, o \in {None, OutDir} }

Init ==
    /\ args \in ArgsSet
    /\ \E listing \in SUBSET PoolPaths :
          /\ Cardinality(listing) <= MaxEntries
          /\ args.mode = "file" => listing \subseteq {args.image_file, OldOutput}
          /\ args.image_dir = "missing" => listing = {}
          /\ fs = InitialFs(listing)
          /\ dirs = IF OldOutput \in listing THEN {InDir, OutDir} ELSE {InDir}
    /\ pc = "import"
    /\ exit_code = None
    /\ OPENAI_API_CONFIGURED = FALSE
    /\ client = None
    /\ tool_OPENAI_API_CONFIGURED = FALSE
    /\ IMAGE_CLASSIFIER = FALSE
    /\ LOCAL_OCR = FALSE
    /\ prompt_text = NoneText
    /\ batch = IdleBatch
    /\ psi = IdlePsi
    /\ passed = {}
    /\ results = {}
    /\ main_calls = <<>>

\* is_file answering as Path.exists().
is_fileExists(p) == fs[p].kind # "absent"

\* Path.is_file(), Path.is_dir()
is_file(p) == fs[p].kind = "file"
is_dir(d) == d \in dirs

(***************************************************************************)
(* Import of the modules: llm_handler configures the OpenAI client,        *)
(* local_image_classifier initialises the DiT classifier, and              *)
(* transcription_tool binds the value OPENAI_API_CONFIGURED has then.      *)
(***************************************************************************)
ImportModules ==
    /\ pc = "import"
    /\ \E key \in BOOLEAN, ctor \in BOOLEAN, dit \in BOOLEAN :
          LET c == configure_openai_api(OPENAI_API_CONFIGURED, client, key, ctor)
          IN  /\ OPENAI_API_CONFIGURED' = c.OPENAI_API_CONFIGURED
              /\ client' = c.client
              /\ tool_OPENAI_API_CONFIGURED' = c.OPENAI_API_CONFIGURED
              /\ IMAGE_CLASSIFIER' = dit
    /\ pc' = "main"
    /\ UNCHANGED << args, results, main_calls, fs, dirs, exit_code, LOCAL_OCR, prompt_text, batch, psi, passed >>

(***************************************************************************)
(* process_single_image(image_path, prompt_text, output_dir)               *)
(***************************************************************************)
\* CallPsi with the output directory not passed on.
CallPsiNoOutputDir(image_path, prompt, output_dir) ==
    [IdlePsi EXCEPT !.pc = "validate", !.image_path = image_path,
                    !.prompt_text = prompt, !.output_dir = None]

\* The frame at the call.
CallPsi(image_path, prompt, output_dir) ==
    [IdlePsi EXCEPT !.pc = "validate", !.image_path = image_path,
                    !.prompt_text = prompt, !.output_dir = output_dir]

\* return b
ReturnPsi(frame, b) == [frame EXCEPT !.pc = "return", !.ret = b]

\* A failed classification (None) is treated as "undetermined".
EffectiveImageType(primary_classification) ==
    IF primary_classification = None THEN "undetermined"
    ELSE primary_classification

\* Route with undetermined images tried locally.
RouteUndeterminedLocal(effective_image_type) ==
    IF effective_image_type \in {"handwritten", "undetermined"} THEN "LocalRecognizer"
    ELSE "CloudTranscriber"

\* The branch on effective_image_type: the backend the image goes to.
Route(effective_image_type) ==
    IF effective_image_type = "handwritten" THEN "LocalRecognizer"
    ELSE "CloudTranscriber"

\* AfterRoute without the check of the configuration.
AfterRouteNoGate(frame, backend, configured) ==
    IF backend = "LocalRecognizer" THEN [frame EXCEPT !.pc = "local_ocr"]
    ELSE [frame EXCEPT !.pc = "llm"]

\* After the branch: the local recognizer is called; the cloud transcriber
\* is called only when the OpenAI API is configured.
AfterRoute(frame, backend, configured) ==
    IF backend = "LocalRecognizer" THEN [frame EXCEPT !.pc = "local_ocr"]
    ELSE IF ~configured THEN ReturnPsi(frame, FALSE)
    ELSE [frame EXCEPT !.pc = "llm"]

\* AfterLocalOcr with a fallback to the cloud transcriber.
AfterLocalOcrFallback(frame, transcription) ==
    IF transcription = NoneText THEN [frame EXCEPT !.pc = "llm"]
    ELSE [frame EXCEPT !.pc = "save"]

\* After get_transcription_from_local_ocr: None fails the item.
AfterLocalOcr(frame, transcription) ==
    IF transcription = NoneText THEN ReturnPsi(frame, FALSE)
    ELSE [frame EXCEPT !.pc = "save"]

\* AfterLlm without the check for None.
AfterLlmSavesAnyway(frame, transcription) == [frame EXCEPT !.pc = "save"]

\* After get_transcription_from_llm: None fails the item.
AfterLlm(frame, transcription) ==
    IF transcription = NoneText THEN ReturnPsi(frame, FALSE)
    ELSE [frame EXCEPT !.pc = "save"]

\* AfterSave with the result of save_transcription ignored.
AfterSaveAlwaysTrue(frame, saved_path) == ReturnPsi(frame, TRUE)

\* After save_transcription: the item succeeds when a path came back.
AfterSave(frame, saved_path) ==
    IF saved_path # NonePath THEN ReturnPsi(frame, TRUE)
    ELSE ReturnPsi(frame, FALSE)

\* The answers of the environment that matter: both when the question is
\* asked, one otherwise.
EnvChoices(asked) == IF asked THEN BOOLEAN ELSE {TRUE}

\* Step 1: validate_image_file.
PsiValidate ==
    /\ psi.pc = "validate"
    /\ LET f == [psi EXCEPT !.calls = Append(@, "validate_image_file")]
       IN  psi' = IF ~validate_image_file(fs, psi.image_path)
                  THEN ReturnPsi(f, FALSE)
                  ELSE [f EXCEPT !.pc = "classify"]
    /\ UNCHANGED << args, results, main_calls, fs, dirs, pc, exit_code, globals, prompt_text, batch, passed >>

\* Step 2: classify_text_type_local; a failed classification is treated as
\* "undetermined".
PsiClassify ==
    /\ psi.pc = "classify"
    /\ \E o \in ClassifierOutcomes :
          LET primary == classify_text_type_local(IMAGE_CLASSIFIER, o)
          IN  psi' = [psi EXCEPT
                        !.calls = Append(@, "classify_text_type_local"),
                        !.prediction = IF IMAGE_CLASSIFIER THEN o ELSE NoPrediction,
                        !.primary_classification = primary,
                        !.effective_image_type = EffectiveImageType(primary),
                        !.pc = "route"]
    /\ UNCHANGED << args, results, main_calls, fs, dirs, pc, exit_code, globals, prompt_text, batch, passed >>

\* GateFlag read from llm_handler at the time of the check.
GateFlagLive == OPENAI_API_CONFIGURED

\* The OPENAI_API_CONFIGURED process_single_image reads: the name bound in
\* transcription_tool by the import.
GateFlag == tool_OPENAI_API_CONFIGURED

\* Step 3: the branch on effective_image_type, and for the cloud branch the
\* check of OPENAI_API_CONFIGURED.
PsiRoute ==
    /\ psi.pc = "route"
    /\ LET backend == Route(psi.effective_image_type)
           f == [psi EXCEPT !.selected = backend, !.effective_image_type = None]
       IN  psi' = AfterRoute(f, backend, GateFlag)
    /\ UNCHANGED << args, results, main_calls, fs, dirs, pc, exit_code, globals, prompt_text, batch, passed >>

\* Step 4, local branch: get_transcription_from_local_ocr.
PsiLocalOcr ==
    /\ psi.pc = "local_ocr"
    /\ \E load_ok \in (IF LOCAL_OCR THEN {TRUE} ELSE BOOLEAN), o \in OcrOutcomes :
          LET r == get_transcription_from_local_ocr(LOCAL_OCR, load_ok, o)
              f == [psi EXCEPT
                      !.calls = Append(@, "get_transcription_from_local_ocr"),
                      !.prediction = NoPrediction,
                      !.transcription = r.text,
                      !.init = Initialisation(r)]
          IN  /\ LOCAL_OCR' = r.handles
              /\ psi' = AfterLocalOcr(f, r.text)
    /\ UNCHANGED << args, results, main_calls, fs, dirs, pc, exit_code, OPENAI_API_CONFIGURED, client,
                    tool_OPENAI_API_CONFIGURED, IMAGE_CLASSIFIER, prompt_text,
                    batch, passed >>

\* Step 4, cloud branch: get_transcription_from_llm.
PsiLlm ==
    /\ psi.pc = "llm"
    /\ \E key \in EnvChoices(~OPENAI_API_CONFIGURED \/ client = None),
          ctor \in EnvChoices(~OPENAI_API_CONFIGURED \/ client = None),
          b64_ok \in BOOLEAN, o \in ApiOutcomes :
          LET r == get_transcription_from_llm(OPENAI_API_CONFIGURED, client,
                                              key, ctor, b64_ok, o)
              f == [psi EXCEPT
                      !.calls = Append(@, "get_transcription_from_llm"),
                      !.prediction = NoPrediction,
                      !.transcription = r.text,
                      !.api = [requests |-> r.requests,
                               kind |-> IF r.requests = 0 THEN None
                                        ELSE AnswerKind(o)]]
          IN  /\ OPENAI_API_CONFIGURED' = r.OPENAI_API_CONFIGURED
              /\ client' = r.client
              /\ psi' = AfterLlm(f, r.text)
    /\ UNCHANGED << args, results, main_calls, fs, dirs, pc, exit_code, tool_OPENAI_API_CONFIGURED,
                    IMAGE_CLASSIFIER, LOCAL_OCR, prompt_text, batch, passed >>

\* Step 5: save_transcription.
PsiSave ==
    /\ psi.pc = "save"
    /\ \E mk \in (IF psi.output_dir # None THEN MkdirOutcomes ELSE {"ok"}),
          wr \in WriteOutcomes :
          LET r == save_transcription(fs, dirs, psi.transcription, psi.image_path,
                                      psi.output_dir, mk, wr)
              f == [psi EXCEPT
                      !.calls = Append(@, "save_transcription") \o r.sys,
                      !.saved_path = r.path]
          IN  /\ fs' = r.fs
              /\ dirs' = r.dirs
              /\ psi' = AfterSave(f, r.path)
    /\ UNCHANGED << args, results, main_calls, pc, exit_code, globals, prompt_text, batch, passed >>

(***************************************************************************)
(* process_directory(image_dir_path, prompt_text, output_dir_arg)          *)
(***************************************************************************)
\* image_dir_path.iterdir(): the entries of the directory.
iterdir(f, d) == {p \in Paths : p.dir = d /\ f[p].kind # "absent"}

\* Considered with every regular file taken as an image.
ConsideredAnyFile(f, item_path) == f[item_path].kind = "file"

\* Considered with the suffix compared as it is written.
ConsideredCaseSensitive(f, item_path) ==
    /\ f[item_path].kind = "file"
    /\ Suffix(item_path) \in SUPPORTED_IMAGE_EXTENSIONS

\* An entry is considered: a regular file with a supported suffix.
Considered(f, item_path) ==
    /\ f[item_path].kind = "file"
    /\ Lower(Suffix(item_path)) \in SUPPORTED_IMAGE_EXTENSIONS

\* StartBatch with the output always written next to the images.
StartBatchInputDirOnly(f, image_dir_path, output_dir_arg) ==
    [IdleBatch EXCEPT
        !.pending = iterdir(f, image_dir_path),
        !.actual_output_dir = image_dir_path]

\* The frame after the counters are set and the output directory is chosen.
StartBatch(f, image_dir_path, output_dir_arg) ==
    [IdleBatch EXCEPT
        !.pending = iterdir(f, image_dir_path),
        !.actual_output_dir =
            IF output_dir_arg # None THEN output_dir_arg ELSE image_dir_path]

\* AfterItem with a failure left uncounted.
AfterItemDropsFailure(b, ret) ==
    IF ret THEN [b EXCEPT !.successful_files_count = @ + 1]
    ELSE b

\* AfterItem with the loop left at the first failure.
AfterItemBreakOnFailure(b, ret) ==
    IF ret THEN [b EXCEPT !.successful_files_count = @ + 1]
    ELSE [b EXCEPT !.failed_files_count = @ + 1, !.pending = {}]

\* The counters after process_single_image returned ret.
AfterItem(b, ret) ==
    IF ret THEN [b EXCEPT !.successful_files_count = @ + 1]
    ELSE [b EXCEPT !.failed_files_count = @ + 1]

\* BatchResult with a directory without images reported as a failure.
BatchResultEmptyFails(b) ==
    IF ~b.found_image_files THEN FALSE
    ELSE IF b.failed_files_count > 0 THEN FALSE
    ELSE TRUE

\* The value process_directory returns after the loop.
BatchResult(b) ==
    IF ~b.found_image_files THEN TRUE
    ELSE IF b.failed_files_count > 0 THEN FALSE
    ELSE TRUE

\* One iteration for a considered entry: count it and call
\* process_single_image.
DirConsider ==
    /\ pc = "directory"
    /\ psi.pc = "idle"
    /\ \E item_path \in batch.pending :
          /\ Considered(fs, item_path)
          /\ batch' = [batch EXCEPT
                         !.pending = @ \ {item_path},
                         !.found_image_files = TRUE,
                         !.processed_files_count = @ + 1]
          /\ psi' = CallPsi(item_path, prompt_text, batch.actual_output_dir)
          /\ passed' = passed \cup {item_path}
    /\ UNCHANGED << args, results, main_calls, fs, dirs, pc, exit_code, globals, prompt_text >>

\* One iteration for any other entry: nothing is done with it.
DirSkip ==
    /\ pc = "directory"
    /\ psi.pc = "idle"
    /\ \E item_path \in batch.pending :
          /\ ~Considered(fs, item_path)
          /\ batch' = [batch EXCEPT !.pending = @ \ {item_path}]
    /\ UNCHANGED << args, results, main_calls, fs, dirs, pc, exit_code, globals, prompt_text, psi, passed >>

\* What one call of process_single_image left: the path, the value returned
\* and, for True, the transcription that was saved.
ResultOf(frame) ==
    [ path |-> frame.image_path, ret |-> frame.ret,
      text |-> IF frame.ret THEN frame.transcription ELSE NoneText,
      init |-> frame.init ]

\* process_single_image has returned to the loop.
DirItemReturn ==
    /\ pc = "directory"
    /\ psi.pc = "return"
    /\ batch' = AfterItem(batch, psi.ret)
    /\ results' = results \cup {ResultOf(psi)}
    /\ psi' = IdlePsi
    /\ UNCHANGED << args, main_calls, fs, dirs, pc, exit_code, globals, prompt_text, passed >>

\* ExitCode with the failure not reported.
ExitCodeZero(overall_success) == 0

\* sys.exit(0) when overall_success, sys.exit(1) otherwise.
ExitCode(overall_success) == IF overall_success THEN 0 ELSE 1

\* The loop is over: process_directory returns and main exits.
DirFinish ==
    /\ pc = "directory"
    /\ psi.pc = "idle"
    /\ batch.pending = {}
    /\ pc' = "exit"
    /\ batch' = [batch EXCEPT !.ret = BatchResult(batch)]
    /\ exit_code' = ExitCode(BatchResult(batch))
    /\ main_calls' = Append(main_calls, "sys.exit")
    /\ UNCHANGED << args, results, fs, dirs, globals, prompt_text, psi, passed >>

(***************************************************************************)
(* main()                                                                  *)
(***************************************************************************)
\* What load_prompt_file returned, for the log of main: None, the empty
\* string, or a text.
Loaded(prompt_content) ==
    IF prompt_content = NoneText THEN "load_prompt_file: None"
    ELSE IF prompt_content = <<>> THEN "load_prompt_file: ''"
    ELSE "load_prompt_file: text"

\* get_prompt_content with only None taken as a failure.
get_prompt_contentNoneOnly(o) ==
    LET prompt_content == load_prompt_file(o)
    IN  IF prompt_content = NoneText THEN NoneText
        ELSE prompt_content

\* get_prompt_content(prompt_file_path_arg): the prompt, or None when
\* load_prompt_file gives None or an empty text.
get_prompt_content(o) ==
    LET prompt_content == load_prompt_file(o)
    IN  IF prompt_content = NoneText \/ prompt_content = <<>> THEN NoneText
        ELSE prompt_content

\* args.output_dir is created when given; a failure exits with status 1.
MainOutputDir ==
    /\ pc = "main"
    /\ IF args.output_dir # None
       THEN \E mk \in MkdirOutcomes :
               IF mk = "ok"
               THEN /\ dirs' = dirs \cup {args.output_dir}
                    /\ pc' = "prompt"
                    /\ main_calls' = Append(main_calls, "mkdir")
                    /\ UNCHANGED exit_code
               ELSE /\ pc' = "exit"
                    /\ exit_code' = 1
                    /\ main_calls' = main_calls \o <<"mkdir", "raised", "sys.exit">>
                    /\ UNCHANGED dirs
       ELSE /\ pc' = "prompt"
            /\ UNCHANGED << dirs, exit_code, main_calls >>
    /\ UNCHANGED << args, results, fs, globals, prompt_text, batch, psi, passed >>

\* The prompt is loaded; without a prompt main exits with status 1.
MainPrompt ==
    /\ pc = "prompt"
    /\ \E o \in PromptOutcomes :
          LET t == get_prompt_content(o)
          IN  IF t = NoneText
              THEN /\ pc' = "exit"
                   /\ exit_code' = 1
                   /\ main_calls' = main_calls
                         \o <<"get_prompt_content", Loaded(load_prompt_file(o)),
                              "None", "sys.exit">>
                   /\ UNCHANGED prompt_text
              ELSE /\ pc' = "dispatch"
                   /\ prompt_text' = t
                   /\ main_calls' = main_calls
                         \o <<"get_prompt_content", Loaded(load_prompt_file(o))>>
                   /\ UNCHANGED exit_code
    /\ UNCHANGED << args, results, fs, dirs, globals, batch, psi, passed >>

\* --image_file: the path must be a file; process_single_image is called.
MainSingle ==
    /\ pc = "dispatch"
    /\ args.mode = "file"
    /\ IF ~is_file(args.image_file)
       THEN /\ pc' = "exit"
            /\ exit_code' = 1
            /\ main_calls' = main_calls \o <<"is_file", "False", "sys.exit">>
            /\ UNCHANGED << psi, passed >>
       ELSE /\ pc' = "single"
            /\ psi' = CallPsi(args.image_file, prompt_text, args.output_dir)
            /\ passed' = passed \cup {args.image_file}
            /\ main_calls' = main_calls \o <<"is_file", "process_single_image">>
            /\ UNCHANGED exit_code
    /\ UNCHANGED << args, results, fs, dirs, globals, prompt_text, batch >>

\* --image_dir: the path must be a directory; process_directory is called.
MainDirectory ==
    /\ pc = "dispatch"
    /\ args.mode = "dir"
    /\ IF ~is_dir(args.image_dir)
       THEN /\ pc' = "exit"
            /\ exit_code' = 1
            /\ main_calls' = main_calls \o <<"is_dir", "False", "sys.exit">>
            /\ UNCHANGED batch
       ELSE /\ pc' = "directory"
            /\ batch' = StartBatch(fs, args.image_dir, args.output_dir)
            /\ main_calls' = main_calls \o <<"is_dir", "process_directory">>
            /\ UNCHANGED exit_code
    /\ UNCHANGED << args, results, fs, dirs, globals, prompt_text, psi, passed >>

\* process_single_image has returned to main, which exits.
MainSingleExit ==
    /\ pc = "single"
    /\ psi.pc = "return"
    /\ pc' = "exit"
    /\ exit_code' = ExitCode(psi.ret)
    /\ results' = results \cup {ResultOf(psi)}
    /\ main_calls' = Append(main_calls, "sys.exit")
    /\ UNCHANGED << args, fs, dirs, globals, prompt_text, batch, psi, passed >>

Next ==
    \/ ImportModules
    \/ MainOutputDir
    \/ MainPrompt
    \/ MainSingle
    \/ MainDirectory
    \/ MainSingleExit
    \/ PsiValidate
    \/ PsiClassify
    \/ PsiRoute
    \/ PsiLocalOcr
    \/ PsiLlm
    \/ PsiSave
    \/ DirConsider
    \/ DirSkip
    \/ DirItemReturn
    \/ DirFinish

Spec == Init /\ [][Next]_vars

(***************************************************************************)
(* validate_image_file called on its own, with any argument: a path of the *)
(* file system, existing or not, or a value that is not a Path.            *)
(***************************************************************************)
ValidateArguments == Paths \cup {Str("in/a.jpg")}

InitValidate ==
    /\ \E x \in ValidateArguments :
          /\ args = [mode |-> "file", image_file |-> x, image_dir |-> None,
                     output_dir |-> None]
          /\ psi = CallPsi(x, NoneText, None)
    /\ \E listing \in SUBSET PoolPaths :
          /\ Cardinality(listing) <= MaxEntries
          /\ fs = InitialFs(listing)
          /\ dirs = IF OldOutput \in listing THEN {InDir, OutDir} ELSE {InDir}
    /\ pc = "single"
    /\ exit_code = None
    /\ OPENAI_API_CONFIGURED = FALSE
    /\ client = None
    /\ tool_OPENAI_API_CONFIGURED = FALSE
    /\ IMAGE_CLASSIFIER = FALSE
    /\ LOCAL_OCR = FALSE
    /\ prompt_text = NoneText
    /\ batch = IdleBatch
    /\ passed = {}
    /\ results = {}
    /\ main_calls = <<>>

NextValidate == PsiValidate

SpecValidate == InitValidate /\ [][NextValidate]_vars

(***************************************************************************)
(* The modules used as a library: after the import, configure_openai_api   *)
(* is called any number of times, then process_single_image is called on   *)
(* one image.                                                              *)
(***************************************************************************)
\* The number of entries name in the log c.
Count(c, name) == Cardinality({i \in DOMAIN c : c[i] = name})

InitConfigure ==
    /\ args = [mode |-> "file", image_file |-> P(InDir, "a", ".jpg"),
               image_dir |-> None, output_dir |-> None]
    /\ fs = InitialFs({P(InDir, "a", ".jpg")})
    /\ dirs = {InDir}
    /\ pc = "import"
    /\ exit_code = None
    /\ OPENAI_API_CONFIGURED = FALSE
    /\ client = None
    /\ tool_OPENAI_API_CONFIGURED = FALSE
    /\ IMAGE_CLASSIFIER = FALSE
    /\ LOCAL_OCR = FALSE
    /\ prompt_text = <<"p">>
    /\ batch = IdleBatch
    /\ psi = IdlePsi
    /\ passed = {}
    /\ results = {}
    /\ main_calls = <<>>

\* One call of configure_openai_api(): the log gets the call, "OpenAI" when
\* a client was constructed, and the value returned.
ConfigureCall ==
    /\ pc = "main"
    /\ Count(main_calls, "configure_openai_api") < MaxConfigureCalls
    /\ \E key \in BOOLEAN, ctor \in BOOLEAN :
          LET c == configure_openai_api(OPENAI_API_CONFIGURED, client, key, ctor)
          IN  /\ OPENAI_API_CONFIGURED' = c.OPENAI_API_CONFIGURED
              /\ client' = c.client
              /\ main_calls' = main_calls \o <<"configure_openai_api">>
                    \o (IF c.constructed THEN <<"OpenAI">> ELSE <<>>)
                    \o <<IF c.ret THEN "True" ELSE "False">>
    /\ UNCHANGED << args, results, fs, dirs, pc, exit_code,
                    tool_OPENAI_API_CONFIGURED, IMAGE_CLASSIFIER, LOCAL_OCR,
                    prompt_text, batch, psi, passed >>

\* process_single_image is called on the image.
CallProcessSingleImage ==
    /\ pc = "main"
    /\ pc' = "single"
    /\ psi' = CallPsi(args.image_file, prompt_text, args.output_dir)
    /\ passed' = passed \cup {args.image_file}
    /\ UNCHANGED << args, results, main_calls, fs, dirs, exit_code, globals,
                    prompt_text, batch >>

NextConfigure ==
    \/ ImportModules
    \/ ConfigureCall
    \/ CallProcessSingleImage
    \/ PsiValidate
    \/ PsiClassify
    \/ PsiRoute
    \/ PsiLocalOcr
    \/ PsiLlm
    \/ PsiSave

SpecConfigure == InitConfigure /\ [][NextConfigure]_vars

(***************************************************************************)
(* Properties.                                                             *)
(***************************************************************************)
\* name occurs in the log c of calls.
CalledIn(c, name) == \E i \in DOMAIN c : c[i] = name

Called(name) == CalledIn(psi.calls, name)

\* mkdir raised in the log c.
MkdirRaised(c) == \E i \in DOMAIN c : c[i] = "mkdir" /\ i < Len(c) /\ c[i + 1] = "raised"

\* p is a regular file with a .jpg or .jpeg suffix in any case.
IsImage(p) ==
    /\ fs[p].kind = "file"
    /\ p.ext \in {".jpg", ".jpeg", ".JPG", ".JPEG", ".Jpg", ".Jpeg"}

BackendCalls == {"get_transcription_from_local_ocr", "get_transcription_from_llm"}

SystemCalls == {"mkdir", "open", "write", "raised"}

\* The path the transcription of the running item belongs at.
ExpectedOutput ==
    P(IF psi.output_dir # None THEN psi.output_dir ELSE psi.image_path.dir,
      psi.image_path.stem, ".txt")

\* The branch was taken and the backend has not answered yet.
JustRouted ==
    /\ psi.selected # None
    /\ psi.calls # <<>>
    /\ psi.calls[Len(psi.calls)] = "classify_text_type_local"

\* C1: an item goes to the LocalRecognizer exactly when the classifier's top
\* label is "handwritten" with a score of at least the threshold (0.5
\* included); with any other label, a lower score or no usable prediction it
\* goes to the CloudTranscriber. It always goes to exactly one of the two.
C1_RouteByLabelAndScore ==
    JustRouted =>
        /\ psi.selected \in {"LocalRecognizer", "CloudTranscriber"}
        /\ psi.selected = "LocalRecognizer" <=>
              /\ psi.prediction.kind = "top"
              /\ Lower(psi.prediction.label) = "handwritten"
              /\ psi.prediction.score >= 50
        /\ psi.selected = "LocalRecognizer" => psi.pc = "local_ocr"
        /\ psi.selected = "CloudTranscriber" => psi.pc \in {"llm", "return"}

\* A top prediction "handwritten" with exactly the threshold score goes to
\* the LocalRecognizer.
C1_Witness ==
    /\ JustRouted
    /\ psi.prediction.kind = "top"
    /\ psi.prediction.label = "handwritten"
    /\ psi.prediction.score = 50
    /\ psi.pc = "local_ocr"

\* C2: when the classifier fails (no primary label), the image is treated as
\* "undetermined" and goes to the CloudTranscriber, and that failure alone
\* does not fail the item: with the cloud backend ready, a text returned and
\* the text saved, process_single_image returns True.
C2_ClassifierFailureNotFatal ==
    (Called("classify_text_type_local") /\ psi.primary_classification = None) =>
        /\ psi.pc = "route" => psi.effective_image_type = "undetermined"
        /\ psi.pc # "route" => psi.selected = "CloudTranscriber"
        /\ ~Called("get_transcription_from_local_ocr")
        /\ ( /\ psi.pc = "return"
             /\ tool_OPENAI_API_CONFIGURED
             /\ psi.transcription # NoneText
             /\ psi.saved_path # NonePath ) => psi.ret = TRUE

\* An item whose classification failed returns True.
C2_Witness ==
    /\ psi.pc = "return"
    /\ Called("classify_text_type_local")
    /\ psi.primary_classification = None
    /\ psi.selected = "CloudTranscriber"
    /\ psi.ret = TRUE

\* C3: one call of process_single_image validates, classifies, calls a
\* backend and saves, in that order, and takes a step only when every step
\* before it succeeded: an invalid image is neither classified, transcribed
\* nor written; after a failed backend or a cloud backend that is not ready
\* nothing is saved or written.
C3_StepOrder ==
    LET c == psi.calls
    IN  /\ Len(c) >= 1 => c[1] = "validate_image_file"
        /\ Len(c) >= 2 => c[2] = "classify_text_type_local" /\ IsImage(psi.image_path)
        /\ Len(c) >= 3 => c[3] \in BackendCalls
        /\ Len(c) >= 4 => c[4] = "save_transcription" /\ psi.transcription # NoneText
        /\ \A i \in DOMAIN c : i >= 5 <=> c[i] \in SystemCalls
        /\ (Len(c) >= 1 /\ ~IsImage(psi.image_path)) =>
              c = <<"validate_image_file">> /\ psi.pc = "return" /\ ~psi.ret
        /\ (Len(c) >= 3 /\ psi.transcription = NoneText) =>
              Len(c) = 3 /\ psi.pc = "return" /\ ~psi.ret
        /\ (psi.selected = "CloudTranscriber" /\ ~tool_OPENAI_API_CONFIGURED) =>
              Len(c) = 2 /\ psi.pc = "return" /\ ~psi.ret

\* The cloud backend failed and the item returned without saving.
C3_Witness ==
    /\ psi.pc = "return"
    /\ psi.calls = <<"validate_image_file", "classify_text_type_local",
                     "get_transcription_from_llm">>
    /\ psi.transcription = NoneText
    /\ ~psi.ret

\* C4: at most one backend is called for an item; when the LocalRecognizer
\* was selected and fails, process_single_image returns False and the
\* CloudTranscriber is not called.
C4_NoFallback ==
    /\ Cardinality({i \in DOMAIN psi.calls : psi.calls[i] \in BackendCalls}) <= 1
    /\ psi.selected = "LocalRecognizer" => ~Called("get_transcription_from_llm")
    /\ ( /\ Called("get_transcription_from_local_ocr")
         /\ psi.transcription = NoneText ) =>
            /\ psi.pc = "return"
            /\ psi.ret = FALSE
            /\ ~Called("get_transcription_from_llm")

\* Local recognition failed while the cloud backend was ready.
C4_Witness ==
    /\ psi.pc = "return"
    /\ Called("get_transcription_from_local_ocr")
    /\ psi.transcription = NoneText
    /\ tool_OPENAI_API_CONFIGURED

\* C5: an item that goes to the CloudTranscriber while the OpenAI API is not
\* configured returns False, and get_transcription_from_llm is not called.
C5_NotReadyFails ==
    (psi.selected = "CloudTranscriber" /\ ~tool_OPENAI_API_CONFIGURED) =>
        /\ psi.pc = "return"
        /\ psi.ret = FALSE
        /\ ~Called("get_transcription_from_llm")

C5_Witness ==
    /\ psi.selected = "CloudTranscriber"
    /\ ~tool_OPENAI_API_CONFIGURED
    /\ ~OPENAI_API_CONFIGURED
    /\ psi.pc = "return"

\* C6: process_single_image returns True exactly when the image is valid,
\* the selected backend returned a text and save_transcription returned a
\* path; a failed save fails the item although the text was obtained.
C6_TrueOnlyIfAllSucceed ==
    psi.pc = "return" =>
        ( psi.ret = TRUE <=>
            /\ IsImage(psi.image_path)
            /\ \E b \in BackendCalls : Called(b)
            /\ psi.transcription # NoneText
            /\ Called("save_transcription")
            /\ psi.saved_path # NonePath
            /\ ~CalledIn(psi.calls, "raised") )

\* The backend returned a text and the save failed.
C6_Witness ==
    /\ psi.pc = "return"
    /\ psi.transcription # NoneText
    /\ Called("save_transcription")
    /\ psi.saved_path = NonePath
    /\ psi.ret = FALSE

\* C7: when an item returns True, its output file holds exactly the text the
\* selected backend returned, and the stem of the output file is the stem of
\* the image.
C7_ContentIsBackendText ==
    (psi.pc = "return" /\ psi.ret = TRUE) =>
        /\ fs[psi.saved_path] = FileNode(psi.transcription)
        /\ Stem(psi.saved_path) = Stem(psi.image_path)
        /\ Suffix(psi.saved_path) = ".txt"

\* A padded answer of a backend was returned stripped and written as
\* returned, over the output of an earlier run.
C7_Witness ==
    /\ psi.pc = "return"
    /\ psi.ret = TRUE
    /\ psi.transcription = <<"x">>
    /\ psi.image_path = P(InDir, "a", ".jpeg")
    /\ fs[P(InDir, "a", ".txt")] = FileNode(<<"x">>)

\* C8: save_transcription writes the file (output_directory if given, else
\* the image's directory) / (stem of the image + ".txt") and no other, and
\* returns that path on success; mkdir is called exactly when an
\* output_directory is given.
C8_SavePath ==
    [][ psi.pc = "save" =>
          /\ \A p \in Paths \ {ExpectedOutput} : fs'[p] = fs[p]
          /\ psi'.saved_path # NonePath =>
                /\ psi'.saved_path = ExpectedOutput
                /\ fs'[ExpectedOutput].kind = "file"
                /\ CalledIn(psi'.calls, "write")
          /\ CalledIn(psi'.calls, "write") => fs'[ExpectedOutput].kind = "file"
          /\ CalledIn(psi'.calls, "mkdir") <=> psi.output_dir # None ]_vars

\* A transcription was saved into the given output directory.
C8_Witness ==
    /\ psi.pc = "return"
    /\ psi.ret = TRUE
    /\ psi.output_dir = OutDir
    /\ psi.image_path = P(InDir, "b", ".JPG")
    /\ psi.saved_path = P(OutDir, "b", ".txt")
    /\ Called("mkdir")

\* C9: when an output directory is given and creating it fails,
\* save_transcription returns None, the output file is neither opened nor
\* written, and the file system is as before.
C9_MkdirFailureNoWrite ==
    [][ (psi.pc = "save" /\ MkdirRaised(psi'.calls)) =>
          /\ psi'.saved_path = NonePath
          /\ psi'.pc = "return"
          /\ psi'.ret = FALSE
          /\ ~CalledIn(psi'.calls, "open")
          /\ ~CalledIn(psi'.calls, "write")
          /\ fs' = fs ]_vars

\* Creating the output directory failed and the earlier output is intact.
C9_Witness ==
    /\ psi.pc = "return"
    /\ MkdirRaised(psi.calls)
    /\ psi.output_dir = OutDir
    /\ psi.image_path.stem = "a"
    /\ psi.transcription # NoneText
    /\ fs[P(OutDir, "a", ".txt")] = FileNode(OldText)

\* The considered entries of the directory process_directory runs on.
ConsideredEntries == {p \in Paths : p.dir = args.image_dir /\ IsImage(p)}

\* process_directory has started.
BatchStarted == batch.actual_output_dir # None

\* C10: in process_directory every considered entry of the directory is
\* passed to process_single_image whatever happened to the entries before
\* it: a failed item neither ends the loop nor makes it skip an entry.
C10_FailureIsolation ==
    BatchStarted =>
        /\ \A p \in ConsideredEntries : p \in passed \/ p \in batch.pending
        /\ pc = "exit" => batch.pending = {} /\ passed = ConsideredEntries
        /\ batch.processed_files_count = Cardinality(passed)

\* An entry is being processed after an earlier one failed.
C10_Witness ==
    /\ pc = "directory"
    /\ batch.failed_files_count >= 1
    /\ psi.pc = "classify"

\* The calls of process_single_image that returned False.
Failures == {r \in results : ~r.ret}

\* C11: when process_directory has returned for a directory with N considered
\* entries of which K failed, total is N, succeeded is N - K, failed is K and
\* the value returned is True exactly when K = 0; without any considered
\* entry the counts are zero and the value is True.
C11_BatchCounts ==
    (pc = "exit" /\ BatchStarted) =>
        LET N == Cardinality(ConsideredEntries)
            K == Cardinality(Failures)
        IN  /\ batch.processed_files_count = N
            /\ batch.successful_files_count = N - K
            /\ batch.failed_files_count = K
            /\ batch.ret <=> (K = 0)
            /\ N = 0 => batch.ret

C11_Witness ==
    /\ pc = "exit"
    /\ BatchStarted
    /\ Cardinality(ConsideredEntries) = 2
    /\ Cardinality(Failures) = 1
    /\ ~batch.ret

\* C12: process_directory counts and processes an entry exactly when it is
\* an immediate entry of the input directory, a regular file, and has the
\* suffix .jpg or .jpeg in any case; sub-directories (also with such a name),
\* entries inside them and other suffixes are never counted or processed.
C12_ConsideredIffImageEntry ==
    BatchStarted =>
        /\ \A p \in passed :
              /\ Parent(p) = args.image_dir
              /\ fs[p].kind = "file"
              /\ p.ext \in {".jpg", ".jpeg", ".JPG", ".JPEG"}
        /\ batch.processed_files_count = Cardinality(passed)
        /\ pc = "exit" => \A p \in ConsideredEntries : p \in passed

C12_Witness ==
    /\ pc = "exit"
    /\ BatchStarted
    /\ passed = {P(InDir, "b", ".JPG")}
    /\ fs[P(InDir, "d", ".jpg")].kind = "dir"
    /\ fs[NestedImage].kind = "file"
    /\ batch.processed_files_count = 1

\* C13 as stated: in every reachable state of a process_directory run the
\* counters are non-negative and total = succeeded + failed.
C13_TotalIsSumEverywhere ==
    BatchStarted =>
        /\ batch.processed_files_count >= 0
        /\ batch.successful_files_count >= 0
        /\ batch.failed_files_count >= 0
        /\ batch.processed_files_count =
              batch.successful_files_count + batch.failed_files_count

\* The counters in a state of process_directory: while an item is being
\* processed it is already in the total and not yet in succeeded or failed.
CountersConsistent ==
    BatchStarted =>
        /\ batch.processed_files_count >= 0
        /\ batch.successful_files_count >= 0
        /\ batch.failed_files_count >= 0
        /\ batch.processed_files_count =
              batch.successful_files_count + batch.failed_files_count
              + (IF psi.pc = "idle" THEN 0 ELSE 1)

\* The counters over one step: none decreases, and the return of an item
\* adds one to exactly one of succeeded and failed.
CountersStep ==
    BatchStarted =>
        /\ batch'.processed_files_count >= batch.processed_files_count
        /\ batch'.successful_files_count >= batch.successful_files_count
        /\ batch'.failed_files_count >= batch.failed_files_count
        /\ (psi.pc = "return" /\ psi'.pc = "idle") =>
              /\ batch'.processed_files_count = batch.processed_files_count
              /\ IF psi.ret
                 THEN /\ batch'.successful_files_count = batch.successful_files_count + 1
                      /\ batch'.failed_files_count = batch.failed_files_count
                 ELSE /\ batch'.failed_files_count = batch.failed_files_count + 1
                      /\ batch'.successful_files_count = batch.successful_files_count
        /\ ~(psi.pc = "return" /\ psi'.pc = "idle") =>
              /\ batch'.successful_files_count = batch.successful_files_count
              /\ batch'.failed_files_count = batch.failed_files_count

\* C13 (amended): the counters are non-negative and never decrease; total =
\* succeeded + failed between two items and at the end, and total =
\* succeeded + failed + 1 while an item is being processed; each item adds
\* one to exactly one of succeeded and failed when it returns.
C13_CountersConsistent == []CountersConsistent /\ [][CountersStep]_vars

C13_Witness ==
    /\ pc = "directory"
    /\ psi.pc = "save"
    /\ batch.processed_files_count = 2
    /\ batch.successful_files_count = 0
    /\ batch.failed_files_count = 1

\* main has called process_directory.
InBatch == CalledIn(main_calls, "process_directory")

\* The output directory of a batch: --output_dir when given, else the input
\* directory.
ResolvedOutputDir ==
    IF args.output_dir # None THEN args.output_dir ELSE args.image_dir

\* C14: the output directory of a batch is fixed before the first item
\* (--output_dir when given, else the input directory), never changes, and
\* every item is processed with it and saved into it.
C14_OneOutputDir ==
    /\ [](InBatch =>
            /\ batch.actual_output_dir = ResolvedOutputDir
            /\ psi.pc # "idle" => psi.output_dir = ResolvedOutputDir
            /\ psi.saved_path # NonePath => Parent(psi.saved_path) = ResolvedOutputDir)
    /\ [][InBatch => batch'.actual_output_dir = batch.actual_output_dir]_vars

C14_Witness ==
    /\ InBatch
    /\ args.output_dir = OutDir
    /\ batch.processed_files_count = 2
    /\ batch.successful_files_count = 1
    /\ psi.pc = "return"
    /\ psi.saved_path = P(OutDir, "b", ".txt")

\* The per-item errors, as far as the current call of process_single_image
\* has met them.
ValidationError == Called("validate_image_file") /\ ~IsImage(psi.image_path)

ClassificationError ==
    Called("classify_text_type_local") /\ psi.primary_classification = None

BackendError ==
    \/ psi.pc = "return" /\ psi.selected = "CloudTranscriber"
                         /\ ~tool_OPENAI_API_CONFIGURED
    \/ (\E b \in BackendCalls : Called(b)) /\ psi.transcription = NoneText

PersistenceError == Called("save_transcription") /\ psi.saved_path = NonePath

OutputDirError == MkdirRaised(main_calls)

PromptError ==
    \E i \in DOMAIN main_calls :
        /\ main_calls[i] = "get_prompt_content"
        /\ i + 1 < Len(main_calls)
        /\ main_calls[i + 2] = "None"

InputError ==
    \/ /\ CalledIn(main_calls, "is_file")
       /\ fs[args.image_file].kind # "file"
    \/ /\ CalledIn(main_calls, "is_dir")
       /\ args.image_dir \notin dirs

SetupError == OutputDirError \/ PromptError \/ InputError

\* C16: after a setup-level error main has exited with status 1 and no item
\* was processed: neither process_single_image nor process_directory was
\* called.
C16_SetupErrorExits ==
    SetupError =>
        /\ pc = "exit"
        /\ exit_code = 1
        /\ ~CalledIn(main_calls, "process_single_image")
        /\ ~CalledIn(main_calls, "process_directory")
        /\ passed = {}
        /\ results = {}
        /\ psi = IdlePsi
        /\ batch = IdleBatch

C16_Witness ==
    /\ pc = "exit"
    /\ args.mode = "file"
    /\ fs[args.image_file].kind = "dir"
    /\ ~OutputDirError
    /\ ~PromptError
    /\ exit_code = 1
    /\ passed = {}

\* The mode main selected reported full success: process_single_image
\* returned True for --image_file, or process_directory ran and no item
\* returned False.
ModeSucceeded ==
    IF args.mode = "file"
    THEN \E r \in results : r.path = args.image_file /\ r.ret
    ELSE InBatch /\ Failures = {}

\* The number of sys.exit calls main made.
Exits == Cardinality({i \in DOMAIN main_calls : main_calls[i] = "sys.exit"})

C18_ValidateFailsClosed ==
    /\ [](psi.pc # "validate" =>
            /\ psi.pc \in {"classify", "return"}
            /\ psi.pc = "classify" <=>
                  (IsPathObject(psi.image_path) /\ IsImage(psi.image_path))
            /\ psi.pc = "return" => psi.ret = FALSE)
    /\ [][fs' = fs /\ dirs' = dirs]_vars

C18_Witness ==
    /\ psi.pc = "return"
    /\ psi.calls = <<"validate_image_file">>
    /\ ~IsPathObject(psi.image_path)
    /\ psi.ret = FALSE

\* The calls of process_single_image that returned True.
Successes == {r \in results : r.ret}

\* The output file of the image p in a batch.
OutputOf(p) == P(ResolvedOutputDir, p.stem, ".txt")

\* C19: after a batch the number of distinct output files written for the
\* succeeded items equals the number of succeeded items, and the output file
\* <stem>.txt of every succeeded image still holds the transcription of that
\* image.
C19_OneFilePerSuccess ==
    (pc = "exit" /\ InBatch) =>
        /\ Cardinality({OutputOf(r.path) : r \in Successes})
              = batch.successful_files_count
        /\ \A r \in Successes : fs[OutputOf(r.path)] = FileNode(r.text)

\* C20: when OPENAI_API_CONFIGURED is False at startup, main exits with
\* status 1 and no item is reported as successfully processed.
C20_ExitsWhenNotConfigured ==
    (pc = "exit" /\ ~tool_OPENAI_API_CONFIGURED) =>
        /\ exit_code = 1
        /\ Successes = {}
        /\ batch.successful_files_count = 0

\* The ways a request to the API fails: the six exceptions, a response
\* without choices, and a response without content.
CloudFailureKinds == ApiErrors \cup {"no_choices", "no_content"}

\* C21: a backend is called at most once for an item and sends at most one
\* request; after each kind of cloud failure get_transcription_from_llm has
\* sent exactly one request and returned None, and the item returned False
\* without a second backend call and without saving.
C21_NoRetry ==
    /\ Cardinality({i \in DOMAIN psi.calls : psi.calls[i] \in BackendCalls}) <= 1
    /\ psi.api.requests <= 1
    /\ (psi.api.requests > 0 /\ psi.api.kind \in CloudFailureKinds) =>
          /\ psi.api.requests = 1
          /\ psi.transcription = NoneText
          /\ psi.pc = "return"
          /\ psi.ret = FALSE
          /\ ~Called("save_transcription")
          /\ ~Called("get_transcription_from_local_ocr")

C21_Witness ==
    /\ psi.pc = "return"
    /\ psi.api = [requests |-> 1, kind |-> "RateLimitError"]
    /\ psi.ret = FALSE
    /\ InBatch
    /\ batch.processed_files_count = 2

\* C22: at the end of a batch the outcome of every item is its own: the
\* output file of an item that returned True holds the text that item
\* saved, whatever the other items of the batch did and in whatever order
\* they ran, and the totals are the numbers of items that returned True and
\* False.
C22_ItemsIndependent ==
    (pc = "exit" /\ InBatch) =>
        /\ \A r \in results :
              r.ret => /\ fs[OutputOf(r.path)].kind = "file"
                       /\ fs[OutputOf(r.path)].content = r.text
        /\ batch.successful_files_count = Cardinality(Successes)
        /\ batch.failed_files_count = Cardinality(Failures)

\* C23: when the classifier gives an empty or non-list output,
\* classify_text_type_local returns "undetermined"; when it is not
\* initialised or raises, it returns None; in both cases the item is not
\* failed at the classification step: it is treated as "undetermined", goes
\* to the CloudTranscriber and, with the API configured, reaches
\* get_transcription_from_llm.
C23_ClassifierRecovered ==
    ( /\ Called("classify_text_type_local")
      /\ ~IMAGE_CLASSIFIER \/ psi.prediction.kind \in {"raise", "empty"} ) =>
        /\ (IMAGE_CLASSIFIER /\ psi.prediction.kind = "empty") =>
              psi.primary_classification = "undetermined"
        /\ (~IMAGE_CLASSIFIER \/ psi.prediction.kind = "raise") =>
              psi.primary_classification = None
        /\ psi.pc \in {"route", "llm", "save", "return"}
        /\ psi.pc = "route" => psi.effective_image_type = "undetermined"
        /\ psi.pc # "route" => psi.selected = "CloudTranscriber"
        /\ ~Called("get_transcription_from_local_ocr")
        /\ (psi.pc = "return" /\ tool_OPENAI_API_CONFIGURED) =>
              Called("get_transcription_from_llm")

C23_Witness ==
    /\ psi.pc = "llm"
    /\ IMAGE_CLASSIFIER
    /\ psi.prediction.kind = "empty"
    /\ psi.primary_classification = "undetermined"
    /\ psi.selected = "CloudTranscriber"

\* A step that is a call of configure_openai_api after the import.
ConfigureStep ==
    Count(main_calls', "configure_openai_api")
        = Count(main_calls, "configure_openai_api") + 1

\* The value the last call of configure_openai_api returned, once the step
\* is taken.
LastConfigureReturned == main_calls'[Len(main_calls')]

\* C24: after any sequence of configure_openai_api calls
\* OPENAI_API_CONFIGURED is True exactly when the client is set; a call that
\* returns False leaves the flag False, and a call made when the client is
\* configured returns True, keeps the client and constructs no new one.
C24_ConfiguredIffClient ==
    /\ [](OPENAI_API_CONFIGURED <=> client # None)
    /\ [][ConfigureStep =>
            /\ LastConfigureReturned \in {"True", "False"}
            /\ LastConfigureReturned = "False" => ~OPENAI_API_CONFIGURED'
            /\ LastConfigureReturned = "True" => OPENAI_API_CONFIGURED'
            /\ (OPENAI_API_CONFIGURED /\ client # None) =>
                  /\ LastConfigureReturned = "True"
                  /\ client' = client
                  /\ Count(main_calls', "OpenAI") = Count(main_calls, "OpenAI")
          ]_vars

C24_Witness ==
    /\ OPENAI_API_CONFIGURED
    /\ client # None
    /\ ~tool_OPENAI_API_CONFIGURED
    /\ Count(main_calls, "configure_openai_api") = 2
    /\ Count(main_calls, "OpenAI") = 1
    /\ main_calls[Len(main_calls)] = "True"
    /\ main_calls[2] = "OpenAI"

\* C26: the check before the cloud backend reads the OPENAI_API_CONFIGURED
\* bound at the import of transcription_tool, which never changes afterwards:
\* when the configuration failed at import, a cloud-routed item returns False
\* without a call of get_transcription_from_llm, also after a later
\* configure_openai_api call succeeded; and whenever
\* get_transcription_from_llm is called the client is configured, so its
\* reconfiguration branch is not taken.
C26_GateReadsImportedFlag ==
    /\ []((psi.selected = "CloudTranscriber" /\ ~tool_OPENAI_API_CONFIGURED) =>
            /\ psi.pc = "return"
            /\ psi.ret = FALSE
            /\ ~Called("get_transcription_from_llm")
            /\ psi.api.requests = 0)
    /\ [](psi.pc = "llm" =>
            /\ tool_OPENAI_API_CONFIGURED
            /\ OPENAI_API_CONFIGURED
            /\ client # None)
    /\ [][pc # "import" =>
            tool_OPENAI_API_CONFIGURED' = tool_OPENAI_API_CONFIGURED]_vars

C26_Witness ==
    /\ psi.pc = "return"
    /\ psi.selected = "CloudTranscriber"
    /\ ~tool_OPENAI_API_CONFIGURED
    /\ OPENAI_API_CONFIGURED
    /\ client # None
    /\ psi.ret = FALSE

\* main is past the setup: it has dispatched, or exited without a setup
\* error.
SetupPassed == pc \in {"single", "directory"} \/ (pc = "exit" /\ ~SetupError)

\* C25: in a run that passes the setup main calls exactly one of
\* process_single_image (for --image_file) and process_directory (for
\* --image_dir), once, with the parsed path, the loaded prompt and
\* args.output_dir as it is; without --output_dir it passes None and creates
\* no directory.
C25_OneModeOnce ==
    /\ [](SetupPassed =>
            /\ prompt_text # NoneText
            /\ Count(main_calls, "process_single_image")
                  + Count(main_calls, "process_directory") = 1
            /\ args.mode = "file" =>
                  /\ Count(main_calls, "process_single_image") = 1
                  /\ batch = IdleBatch
                  /\ passed = {args.image_file}
                  /\ psi.image_path = args.image_file
                  /\ psi.prompt_text = prompt_text
                  /\ psi.output_dir = args.output_dir
            /\ args.mode = "dir" =>
                  /\ Count(main_calls, "process_directory") = 1
                  /\ \A p \in passed : Parent(p) = args.image_dir
                  /\ batch.actual_output_dir = ResolvedOutputDir
                  /\ psi.pc # "idle" => psi.prompt_text = prompt_text
            /\ args.output_dir = None => ~CalledIn(main_calls, "mkdir"))
    /\ [][(args.output_dir = None /\ pc \in {"main", "prompt", "dispatch"}) =>
            dirs' = dirs]_vars

C25_Witness ==
    /\ pc = "exit"
    /\ args.mode = "file"
    /\ args.output_dir = None
    /\ Count(main_calls, "process_single_image") = 1
    /\ Count(main_calls, "process_directory") = 0
    /\ psi.output_dir = None
    /\ psi.ret = TRUE

\* C27: an empty transcription is a success only on the local path: an empty
\* text from the LocalRecognizer is saved as an empty file and the item
\* returns True, a cloud response with empty or missing content gives None
\* and the item returns False with nothing written, and so an item that
\* returned True with an empty transcription went to the LocalRecognizer.
C27_EmptyTextOnlyLocal ==
    /\ ( /\ psi.pc = "return"
         /\ Called("get_transcription_from_local_ocr")
         /\ psi.transcription = <<>>
         /\ psi.saved_path # NonePath ) =>
            /\ psi.ret = TRUE
            /\ fs[psi.saved_path] = FileNode(<<>>)
    /\ (psi.api.requests = 1 /\ psi.api.kind \in {"no_choices", "no_content"}) =>
            /\ psi.transcription = NoneText
            /\ psi.pc = "return"
            /\ psi.ret = FALSE
            /\ ~Called("save_transcription")
    /\ (psi.pc = "return" /\ psi.ret = TRUE /\ psi.transcription = <<>>) =>
            psi.selected = "LocalRecognizer"

\* The prompt files that are empty or hold only blanks.
BlankPrompts == {[kind |-> "content", raw |-> t] : t \in {<<>>, <<" ">>}}

\* C28: for an empty or blank-only prompt file load_prompt_file returns the
\* empty string, not None, get_prompt_content returns None, and main exits
\* with status 1 before any item is processed.
C28_EmptyPromptIsFatal ==
    /\ \A o \in BlankPrompts :
          /\ load_prompt_file(o) = <<>>
          /\ load_prompt_file(o) # NoneText
          /\ get_prompt_content(o) = NoneText
    /\ CalledIn(main_calls, "load_prompt_file: ''") =>
          /\ pc = "exit"
          /\ exit_code = 1
          /\ prompt_text = NoneText
          /\ ~CalledIn(main_calls, "process_single_image")
          /\ ~CalledIn(main_calls, "process_directory")
          /\ passed = {}
          /\ results = {}
          /\ psi = IdlePsi
          /\ batch = IdleBatch

C28_Witness ==
    /\ pc = "exit"
    /\ CalledIn(main_calls, "load_prompt_file: ''")
    /\ main_calls[Len(main_calls)] = "sys.exit"
    /\ exit_code = 1
    /\ args.mode = "dir"
    /\ fs[P(InDir, "a", ".jpg")].kind = "file"

\* How far process_directory is from its return: the entries left, and the
\* steps left of the item being processed.
Remaining ==
    IF pc = "exit" THEN 0
    ELSE 8 * Cardinality(batch.pending)
         + ( CASE psi.pc = "idle"     -> 1
               [] psi.pc = "return"   -> 2
               [] psi.pc = "save"     -> 3
               [] psi.pc \in {"local_ocr", "llm"} -> 4
               [] psi.pc = "route"    -> 5
               [] psi.pc = "classify" -> 6
               [] OTHER               -> 7 )

\* C29: process_directory terminates with every considered entry processed
\* exactly once: the entries left to handle never grow, every step brings
\* the return nearer, no .txt file (also one written during the run into the
\* input directory) is ever taken as an item, and no entry is processed
\* twice.
C29_BatchTerminates ==
    /\ [](InBatch =>
            /\ \A p \in Paths : p.ext = ".txt" => p \notin passed
            /\ passed \subseteq ConsideredEntries
            /\ batch.processed_files_count = Cardinality(passed)
            /\ pc # "exit" => ENABLED Next
            /\ pc = "exit" => passed = ConsideredEntries /\ batch.pending = {})
    /\ [][InBatch =>
            /\ batch'.pending \subseteq batch.pending
            /\ Remaining' < Remaining
            /\ batch'.processed_files_count > batch.processed_files_count =>
                  Cardinality(passed') = Cardinality(passed) + 1]_vars

C29_Witness ==
    /\ pc = "exit"
    /\ InBatch
    /\ args.output_dir = None
    /\ batch.processed_files_count = 2
    /\ fs[P(InDir, "b", ".txt")].kind = "file"
    /\ fs[P(InDir, "a", ".txt")].kind = "file"

\* The calls of the run in which the TrOCR model was loaded: those that
\* returned and, until main exits, the current one.
Loads ==
    Cardinality({r \in results : r.init = "loaded"})
        + (IF psi.init = "loaded" /\ pc # "exit" THEN 1 ELSE 0)

\* C30: the TrOCR model is loaded when an item first needs it and at most
\* once successfully: once set the handles stay set and a later item reuses
\* them without loading; after a failed loading the handles are unset and
\* the item returns False, and the next item that goes to the
\* LocalRecognizer tries the loading again.
C30_LazyLocalModel ==
    /\ [](Loads <= 1)
    /\ [](psi.init \in {"loaded", "reused"} => LOCAL_OCR)
    /\ [](psi.init = "failed" =>
            /\ ~LOCAL_OCR
            /\ psi.transcription = NoneText
            /\ psi.pc = "return"
            /\ psi.ret = FALSE)
    /\ [](psi.calls = <<>> => psi.init = None)
    /\ [][LOCAL_OCR => LOCAL_OCR']_vars
    /\ [][(psi.pc = "local_ocr" /\ psi'.pc # "local_ocr") =>
            /\ LOCAL_OCR => psi'.init = "reused"
            /\ ~LOCAL_OCR => psi'.init \in {"loaded", "failed"}]_vars
    /\ [][psi.pc # "local_ocr" => LOCAL_OCR' = LOCAL_OCR]_vars

C30_Witness ==
    /\ psi.pc = "return"
    /\ psi.init = "loaded"
    /\ psi.ret = TRUE
    /\ \E r \in results : r.init = "failed" /\ ~r.ret

=============================================================================
